---- MODULE Spec2Model ----
(***************************************************************************)
(* Program loader of mtail (vm/loader.go): the bulk load LoadProgs, the    *)
(* per-file load LoadProg and the event loop progloader.start, which run   *)
(* in two goroutines over the Engine map, the pathnames set, the watcher   *)
(* and the two expvar counters.                                            *)
(*                                                                         *)
(* A path is a sequence of tokens: a name part, the separator "/" or the   *)
(* dot ".", so that filepath.Ext, Base, Split and path.Join are computed   *)
(* on the text of the path as the library computes them.                   *)
(***************************************************************************)
EXTENDS Integers, Sequences, FiniteSets, TLC

\* ------------------------------------------------------------ bounds
\* events the watcher emits in a run
MaxEvents == 2
\* events in flight in the watcher's channel
MaxQueue == 1
\* events the watcher emits in a run in which LoadProgs is never called
MaxLoopEvents == 3
\* events the watcher emits in a run with a reader of the Engine
MaxRaceEvents == 1
\* events the watcher emits in a run whose emission order is recorded
MaxFifoEvents == 3
\* events in flight in the watcher's channel in such a run
MaxFifoQueue == 2
\* events the watcher emits in a run in which it closes its channel
MaxLiveEvents == 2
\* events the watcher emits in a run that follows the mutex
MaxLockEvents == 2

\* ------------------------------------------------------- path library
Sep == "/"
Dot == "."

fileext == <<Dot, "mtail">>

RECURSIVE LastIndex(_, _, _)
\* the largest i <= n with s[i] = tok, or 0
LastIndex(s, tok, n) ==
    IF n = 0 THEN 0
    ELSE IF s[n] = tok THEN n ELSE LastIndex(s, tok, n - 1)

RECURSIVE ExtFrom(_, _)
\* filepath.Ext: scan back from the end to the last separator for a dot
ExtFrom(s, i) ==
    IF i = 0 \/ s[i] = Sep THEN <<>>
    ELSE IF s[i] = Dot THEN SubSeq(s, i, Len(s)) ELSE ExtFrom(s, i - 1)

Ext(s) == ExtFrom(s, Len(s))

\* filepath.Split: the directory with its trailing separator, and the file
Split(s) ==
    LET i == LastIndex(s, Sep, Len(s))
    IN  [dir |-> SubSeq(s, 1, i), file |-> SubSeq(s, i + 1, Len(s))]

RECURSIVE TrimSep(_)
TrimSep(s) ==
    IF s # <<>> /\ s[Len(s)] = Sep THEN TrimSep(SubSeq(s, 1, Len(s) - 1)) ELSE s

\* filepath.Base: the last element, trailing separators removed first
Base(s) ==
    LET t == TrimSep(s)
    IN  IF t = <<>> THEN (IF s = <<>> THEN <<Dot>> ELSE <<Sep>>)
        ELSE SubSeq(t, LastIndex(t, Sep, Len(t)) + 1, Len(t))

RECURSIVE Clean(_)
\* path.Clean on the joined text: runs of separators collapse to one
Clean(s) ==
    IF Len(s) < 2 THEN s
    ELSE IF s[1] = Sep /\ s[2] = Sep THEN Clean(Tail(s))
    ELSE <<s[1]>> \o Clean(Tail(s))

\* path.Join(program_path, name)
Join(d, n) ==
    IF d = <<>> THEN Clean(n)
    ELSE IF n = <<>> THEN Clean(d)
    ELSE Clean(d \o <<Sep>> \o n)

\* ---------------------------------------------------------- file system
NoFile == "nofile"
IsDirMark == "dir"
\* program texts: "bad" does not compile
Texts == {"v1", "v2", "bad"}

ProgDir == <<"progs">>
OtherDir == <<"other">>
NameA == <<"a", Dot, "mtail">>
NameB == <<"b", Dot, "mtail">>
NameD == <<"d", Dot, "mtail">>
NameN == <<"notes", Dot, "txt">>

PathA == ProgDir \o <<Sep>> \o NameA
PathB == ProgDir \o <<Sep>> \o NameB
PathD == ProgDir \o <<Sep>> \o NameD
PathN == ProgDir \o <<Sep>> \o NameN
PathO == OtherDir \o <<Sep>> \o NameA

\* the entries of the program directory in file name order, as
\* ioutil.ReadDir returns them
DirOrder == <<NameA, NameB, NameD, NameN>>
AllPaths == {PathA, PathB, PathD, PathN, PathO}
Names == {NameA, NameB, NameD, NameN}

\* ------------------------------------------------------------- events
EventPaths == {PathA, PathN, PathO}
Events ==
    [type : {"Create", "Update", "Delete"}, Pathname : EventPaths]
        \cup {[type |-> "Other", Pathname |-> <<>>]}

NoEvent == [type |-> "none", Pathname |-> <<>>]

VARIABLES
    fs,                 \* afero.Fs: path -> text, IsDirMark or NoFile
    chan,               \* p.w.Events(): events in flight
    closed,             \* the watcher closed its channel
    E,                  \* p.E: name -> *VM
    pathnames,          \* p.pathnames
    Prog_loads,         \* expvar map prog_loads_total
    Prog_load_errors,   \* expvar map prog_load_errors
    wlog,               \* the calls start() made on p.w, in order
    lpc,                \* position of the goroutine running start()
    event,              \* start(): the event of the current turn
    lvm,                \* start(): the v of the LoadProg call in progress
    bpc,                \* position of the caller of LoadProgs
    fis,                \* LoadProgs: the listing
    bi,                 \* LoadProgs: index of the current fi
    errors,             \* LoadProgs: the error count
    bvm,                \* LoadProgs: the v of the LoadProg call in progress
    bwlog,              \* the calls LoadProgs made on p.w, in order
    nvm,                \* VMs allocated so far, by goroutine
    rpc,                \* position of a reader of the Engine
    rname,              \* reader: the name it looks up
    got,                \* reader: what its last lookup returned
    raced,              \* history: the map was written during the lookup
    handled,            \* history: the number of events the loop has taken
    attempts,           \* history: name -> LoadProg calls that returned
    ret,                \* history: the last return of LoadProg
    newest,             \* history: name -> the VM of the latest good compile
    loaded,             \* history: names this LoadProgs call has registered
    bmark,              \* history: handled when LoadProgs was called
    mu,                 \* p.RWMutex: who holds it
    sent                \* history: the events sent in a recorded run, in order

vars == <<fs, chan, closed, E, pathnames, Prog_loads, Prog_load_errors, wlog,
          lpc, event, lvm, bpc, fis, bi, errors, bvm, bwlog, nvm,
          rpc, rname, got, raced,
          handled, attempts, ret, newest, loaded, bmark, mu, sent>>

envVars == <<fs, chan, closed>>
loopVars == <<lpc, event, lvm>>
bulkVars == <<bpc, fis, bi, errors, bvm, bwlog, loaded, bmark>>
readerVars == <<rpc, rname, got>>
histVars == <<attempts, ret, newest>>
counterVars == <<Prog_loads, Prog_load_errors>>

NoVm == [name |-> <<>>, code |-> "none", id |-> <<>>]
NoRet == [by |-> "none", name |-> <<>>, errors |-> 0]

\* ------------------------------------------------- collaborators
\* Compile(name, f, p.ms): a new VM, or errors and no VM
Compile(name, text, id) ==
    IF text \in {"v1", "v2", "w1"}
    THEN [errs |-> FALSE, v |-> [name |-> name, code |-> text, id |-> id]]
    ELSE [errs |-> TRUE, v |-> NoVm]

\* Engine.AddVm: e[name] = v
AddVm(e, name, v) ==
    [k \in DOMAIN e \cup {name} |-> IF k = name THEN v ELSE e[k]]

\* Engine.RemoveVm: delete(e, name)
RemoveVm(e, name) == [k \in DOMAIN e \ {name} |-> e[k]]

\* a lookup in the Engine map: the VM, or NoVm for a name not in it
Lookup(e, name) == IF name \in DOMAIN e THEN e[name] ELSE NoVm

\* expvar.Map.Get as an integer: 0 for a key never added
Get(m, key) == IF key \in DOMAIN m THEN m[key] ELSE 0

\* expvar.Map.Add(key, delta)
Add(m, key, delta) ==
    [k \in DOMAIN m \cup {key} |-> IF k = key THEN Get(m, key) + delta ELSE m[k]]

\* ioutil.ReadDir(program_path): the entries present, by file name
ReadDir(program_path) ==
    LET present(n) == fs[Join(program_path, n)] # NoFile
        entry(n) == [Name |-> n, IsDir |-> fs[Join(program_path, n)] = IsDirMark]
        all == [i \in 1..Len(DirOrder) |-> entry(DirOrder[i])]
    IN  SelectSeq(all, LAMBDA fi : present(fi.Name))

\* --------------------------------------------------- pieces of the code
\* mutant of Eligible: the IsDir test is missing
Eligible_NoDirTest(fi) == Ext(fi.Name) = fileext

\* LoadProgs: the entries the loop body does not skip
Eligible(fi) == ~fi.IsDir /\ Ext(fi.Name) = fileext

RECURSIVE NextEligible(_, _)
\* LoadProgs: the for loop continues past directories and other extensions
\* to the next entry it loads, or to the end of the listing
NextEligible(l, i) ==
    IF i > Len(l) \/ Eligible(l[i]) THEN i ELSE NextEligible(l, i + 1)

\* LoadProg up to its AddVm: open and compile the file as it is now
LoadProgTry(g, program_path, name) ==
    LET pth == Join(program_path, name)
    IN  IF pth \notin DOMAIN fs \/ fs[pth] = NoFile
        THEN [errors |-> 1, v |-> NoVm]
        ELSE LET c == Compile(name, fs[pth], <<g, nvm[g] + 1>>)
             IN  IF c.errs THEN [errors |-> 1, v |-> NoVm]
                 ELSE [errors |-> 0, v |-> c.v]

\* mutant of FailedLoad: the failed load unregisters the program
FailedLoad_Unregisters(e, name) == RemoveVm(e, name)

\* LoadProg, the Engine when it returns 1: both error returns come before
\* the only AddVm
FailedLoad(e, name) == e

\* mutant of Loaded: a name already registered keeps its old instance
Loaded_KeepsOld(e, name, v) == IF name \in DOMAIN e THEN e ELSE AddVm(e, name, v)

\* LoadProg, the Engine when it returns 0: p.E.AddVm(name, v)
Loaded(e, name, v) == AddVm(e, name, v)

\* mutant of ErrorCounted: an error return counts nothing
ErrorCounted_Forgets(m, name) == m

\* LoadProg: Prog_load_errors.Add(name, 1) on both error returns
ErrorCounted(m, name) == Add(m, name, 1)

\* LoadProg: Prog_loads.Add(name, 1)
LoadCounted(m, name) == Add(m, name, 1)

\* mutant of HasFileext: the extension test is missing
HasFileext_Any(pathname) == TRUE

\* start(): the events the Create and Update cases go on with
HasFileext(pathname) == Ext(pathname) = fileext

\* start(): the name the Delete case removes
DeleteName(pathname) == Split(pathname).file

\* mutant of Deleted: a Delete for a name not registered empties the Engine
Deleted_Resets(e, f) == IF f \in DOMAIN e THEN RemoveVm(e, f) ELSE <<>>

\* mutant of Deleted: the Delete case empties the Engine
Deleted_ClearsAll(e, f) == <<>>

\* start(), Delete case: the Engine after p.E.RemoveVm(f)
Deleted(e, f) == RemoveVm(e, f)

\* start(), Create and Update case: whether the file gets a watch
NotWatched(f) == f \notin pathnames

\* ---------------------------------------------------------------- Init
Init ==
    /\ fs \in {f \in [AllPaths -> Texts \cup {NoFile, IsDirMark, "w1"}] :
                /\ f[PathA] \in {"v1", "bad", NoFile}
                /\ f[PathB] \in {"v1", "bad"}
                /\ f[PathD] = IsDirMark
                /\ f[PathN] = "v1"
                /\ f[PathO] = "w1"}
    /\ chan = <<>>
    /\ closed = FALSE
    /\ E = <<>>
    /\ pathnames = {}
    /\ Prog_loads = <<>>
    /\ Prog_load_errors = <<>>
    /\ wlog = <<>>
    /\ lpc = "recv"
    /\ event = NoEvent
    /\ lvm = NoVm
    /\ bpc = "idle"
    /\ fis = <<>>
    /\ bi = 0
    /\ errors = 0
    /\ bvm = NoVm
    /\ bwlog = <<>>
    /\ nvm = [g \in {"loop", "bulk"} |-> 0]
    /\ rpc = "idle"
    /\ rname = <<>>
    /\ got = NoVm
    /\ raced = FALSE
    /\ handled = 0
    /\ attempts = <<>>
    /\ ret = NoRet
    /\ newest = <<>>
    /\ loaded = {}
    /\ bmark = 0
    /\ mu = "none"
    /\ sent = <<>>

\* --------------------------------------------------------- environment
\* something outside rewrites or removes progs/a.mtail
WriteFile(text) ==
    /\ text # fs[PathA]
    /\ fs' = [fs EXCEPT ![PathA] = text]
    /\ UNCHANGED <<chan, closed, mu, sent, E, pathnames, counterVars, wlog, loopVars,
                   bulkVars, nvm, readerVars, raced, handled, histVars>>

\* the watcher sends an event on its channel; max bounds the run
Send(ev, max) ==
    /\ ~closed
    /\ Len(chan) < MaxQueue
    /\ handled + Len(chan) < max
    /\ chan' = Append(chan, ev)
    /\ UNCHANGED <<fs, closed, mu, sent, E, pathnames, counterVars, wlog, loopVars,
                   bulkVars, nvm, readerVars, raced, handled, histVars>>

Emit(ev) == Send(ev, MaxEvents)

\* the watcher closes its channel
Close ==
    /\ ~closed
    /\ closed' = TRUE
    /\ UNCHANGED <<fs, chan, mu, sent, E, pathnames, counterVars, wlog, loopVars,
                   bulkVars, nvm, readerVars, raced, handled, histVars>>

\* ------------------------------------------------------------ start()
\* mutant of Take: the loop takes the event sent last
Take_Newest(ev) ==
    /\ lpc = "recv"
    /\ chan # <<>>
    /\ ev = chan[Len(chan)]
    /\ chan' = SubSeq(chan, 1, Len(chan) - 1)
    /\ event' = ev
    /\ handled' = handled + 1

\* for event := range p.w.Events(): the next event is taken
Take(ev) ==
    /\ lpc = "recv"
    /\ chan # <<>>
    /\ ev = Head(chan)
    /\ chan' = Tail(chan)
    /\ event' = ev
    /\ handled' = handled + 1

\* the p.Lock() ... p.Unlock() block of the Create and Update cases
Watch(f, pathname) ==
    IF NotWatched(f)
    THEN /\ pathnames' = pathnames \cup {f}
         /\ wlog' = Append(wlog, [op |-> "Add", path |-> pathname])
    ELSE UNCHANGED <<pathnames, wlog>>

\* a write of the Engine map is seen by a lookup in progress
MapWritten == raced' = (raced \/ rpc = "reading")

\* case watcher.DeleteEvent
LoopDelete ==
    \E ev \in Events :
        /\ Take(ev)
        /\ ev.type = "Delete"
        /\ LET f == DeleteName(ev.Pathname)
           IN  /\ E' = Deleted(E, f)
               /\ pathnames' = pathnames \ {f}
               /\ wlog' = Append(wlog, [op |-> "Remove", path |-> ev.Pathname])
               /\ newest' = RemoveVm(newest, f)
        /\ MapWritten
        /\ UNCHANGED <<fs, closed, mu, sent, counterVars, lpc, lvm, bulkVars, nvm,
                       readerVars, attempts, ret>>

\* mutant of LoopCreate: the Create case registers a program as well
LoopCreate_Loads ==
    \E ev \in Events :
        /\ Take(ev)
        /\ ev.type = "Create"
        /\ IF ~HasFileext(ev.Pathname)
           THEN UNCHANGED <<E, pathnames, wlog>>
           ELSE /\ Watch(Base(ev.Pathname), ev.Pathname)
                /\ E' = AddVm(E, Base(ev.Pathname),
                              [name |-> Base(ev.Pathname), code |-> "v1",
                               id |-> <<"loop", 0>>])
        /\ UNCHANGED <<fs, closed, mu, sent, counterVars, lpc, lvm, bulkVars, nvm,
                       readerVars, raced, histVars>>

\* case watcher.CreateEvent
LoopCreate ==
    \E ev \in Events :
        /\ Take(ev)
        /\ ev.type = "Create"
        /\ IF ~HasFileext(ev.Pathname)
           THEN UNCHANGED <<pathnames, wlog>>
           ELSE Watch(Base(ev.Pathname), ev.Pathname)
        /\ UNCHANGED <<fs, closed, mu, sent, E, counterVars, lpc, lvm, bulkVars, nvm,
                       readerVars, raced, histVars>>

\* case watcher.UpdateEvent, to the point where LoadProg has compiled the
\* file or has returned 1
LoopUpdate ==
    \E ev \in Events :
        /\ Take(ev)
        /\ ev.type = "Update"
        /\ IF ~HasFileext(ev.Pathname)
           THEN UNCHANGED <<E, pathnames, wlog, counterVars, lpc, lvm, nvm,
                            histVars>>
           ELSE LET d == Split(ev.Pathname).dir
                    f == Split(ev.Pathname).file
                    r == LoadProgTry("loop", d, f)
                IN  /\ Watch(f, ev.Pathname)
                    /\ IF r.errors = 1
                       THEN /\ E' = FailedLoad(E, f)
                            /\ Prog_load_errors' = ErrorCounted(Prog_load_errors, f)
                            /\ attempts' = Add(attempts, f, 1)
                            /\ ret' = [by |-> "loop", name |-> f, errors |-> 1]
                            /\ UNCHANGED <<Prog_loads, lpc, lvm, nvm, newest>>
                       ELSE /\ lpc' = "addvm"
                            /\ lvm' = r.v
                            /\ nvm' = [nvm EXCEPT !["loop"] = @ + 1]
                            /\ newest' = AddVm(newest, f, r.v.id)
                            /\ UNCHANGED <<E, counterVars, attempts, ret>>
        /\ UNCHANGED <<fs, closed, mu, sent, bulkVars, readerVars, raced>>

\* LoadProg called from the Update case: p.E.AddVm, Prog_loads.Add, return
LoopAddVm ==
    /\ lpc = "addvm"
    /\ LET f == Split(event.Pathname).file
       IN  /\ E' = Loaded(E, f, lvm)
           /\ Prog_loads' = LoadCounted(Prog_loads, f)
           /\ attempts' = Add(attempts, f, 1)
           /\ ret' = [by |-> "loop", name |-> f, errors |-> 0]
    /\ MapWritten
    /\ lpc' = "recv"
    /\ lvm' = NoVm
    /\ UNCHANGED <<envVars, mu, sent, pathnames, Prog_load_errors, wlog, event, bulkVars,
                   nvm, readerVars, handled, newest>>

\* mutant of LoopOther: an event of no known type ends the loop
LoopOther_Exits ==
    \E ev \in Events :
        /\ Take(ev)
        /\ ev.type = "Other"
        /\ lpc' = "exited"
        /\ UNCHANGED <<fs, closed, mu, sent, E, pathnames, counterVars, wlog,
                       lvm, bulkVars, nvm, readerVars, raced, histVars>>

\* default: an event of no known type is logged
LoopOther ==
    \E ev \in Events :
        /\ Take(ev)
        /\ ev.type = "Other"
        /\ UNCHANGED <<fs, closed, mu, sent, E, pathnames, counterVars, wlog, lpc, lvm,
                       bulkVars, nvm, readerVars, raced, histVars>>

\* the range loop ends: the channel is closed and drained
LoopExit ==
    /\ lpc = "recv"
    /\ closed
    /\ chan = <<>>
    /\ lpc' = "exited"
    /\ UNCHANGED <<envVars, mu, sent, E, pathnames, counterVars, wlog, event, lvm,
                   bulkVars, nvm, readerVars, raced, handled, histVars>>

\* ---------------------------------------------------------- LoadProgs
\* LoadProgs is called: p.w.Add(program_path), ioutil.ReadDir, errors := 0
LoadProgsCall ==
    /\ bpc = "idle"
    /\ bwlog' = Append(bwlog, [op |-> "Add", path |-> ProgDir])
    /\ fis' = ReadDir(ProgDir)
    /\ bi' = NextEligible(ReadDir(ProgDir), 1)
    /\ errors' = 0
    /\ bpc' = "scan"
    /\ loaded' = {}
    /\ bmark' = IF lpc = "addvm" THEN -1 ELSE handled
    /\ UNCHANGED <<envVars, mu, sent, E, pathnames, counterVars, wlog, loopVars, bvm,
                   nvm, readerVars, raced, handled, histVars>>

\* the for loop at an entry it loads, to the point where LoadProg has
\* compiled the file or has returned 1
LoadProgsStep ==
    /\ bpc = "scan"
    /\ bi <= Len(fis)
    /\ LET fi == fis[bi]
           r == LoadProgTry("bulk", ProgDir, fi.Name)
       IN  IF r.errors = 1
           THEN /\ E' = FailedLoad(E, fi.Name)
                /\ Prog_load_errors' = ErrorCounted(Prog_load_errors, fi.Name)
                /\ attempts' = Add(attempts, fi.Name, 1)
                /\ ret' = [by |-> "bulk", name |-> fi.Name, errors |-> 1]
                /\ errors' = errors + 1
                /\ bi' = NextEligible(fis, bi + 1)
                /\ UNCHANGED <<Prog_loads, bpc, bvm, nvm, newest>>
           ELSE /\ bpc' = "addvm"
                /\ bvm' = r.v
                /\ nvm' = [nvm EXCEPT !["bulk"] = @ + 1]
                /\ newest' = AddVm(newest, fi.Name, r.v.id)
                /\ UNCHANGED <<E, counterVars, errors, bi, attempts, ret>>
    /\ UNCHANGED <<envVars, mu, sent, pathnames, wlog, loopVars, fis, bwlog, loaded,
                   bmark, readerVars, raced, handled>>

\* mutant of LoadProgsAddVm: the load puts the name in the Watch Set
LoadProgsAddVm_Watches ==
    /\ bpc = "addvm"
    /\ E' = Loaded(E, fis[bi].Name, bvm)
    /\ Prog_loads' = LoadCounted(Prog_loads, fis[bi].Name)
    /\ attempts' = Add(attempts, fis[bi].Name, 1)
    /\ ret' = [by |-> "bulk", name |-> fis[bi].Name, errors |-> 0]
    /\ loaded' = loaded \cup {fis[bi].Name}
    /\ pathnames' = pathnames \cup {fis[bi].Name}
    /\ MapWritten
    /\ bi' = NextEligible(fis, bi + 1)
    /\ bvm' = NoVm
    /\ bpc' = "scan"
    /\ UNCHANGED <<envVars, mu, sent, Prog_load_errors, wlog, loopVars, fis,
                   errors, bwlog, bmark, nvm, readerVars, handled, newest>>

\* LoadProg called from LoadProgs: p.E.AddVm, Prog_loads.Add, return 0
LoadProgsAddVm ==
    /\ bpc = "addvm"
    /\ E' = Loaded(E, fis[bi].Name, bvm)
    /\ Prog_loads' = LoadCounted(Prog_loads, fis[bi].Name)
    /\ attempts' = Add(attempts, fis[bi].Name, 1)
    /\ ret' = [by |-> "bulk", name |-> fis[bi].Name, errors |-> 0]
    /\ loaded' = loaded \cup {fis[bi].Name}
    /\ MapWritten
    /\ bi' = NextEligible(fis, bi + 1)
    /\ bvm' = NoVm
    /\ bpc' = "scan"
    /\ UNCHANGED <<envVars, mu, sent, pathnames, Prog_load_errors, wlog,
                   loopVars, fis, errors, bwlog, bmark, nvm, readerVars,
                   handled, newest>>

\* return &p.E, errors
LoadProgsReturn ==
    /\ bpc = "scan"
    /\ bi > Len(fis)
    /\ bpc' = "done"
    /\ UNCHANGED <<envVars, mu, sent, E, pathnames, counterVars, wlog, loopVars, fis, bi,
                   errors, bvm, bwlog, loaded, bmark, nvm, readerVars, raced,
                   handled, histVars>>

Next ==
    \/ \E text \in Texts \cup {NoFile} : WriteFile(text)
    \/ \E ev \in Events : Emit(ev)
    \/ LoopDelete
    \/ LoopCreate
    \/ LoopUpdate
    \/ LoopAddVm
    \/ LoopOther
    \/ LoadProgsCall
    \/ LoadProgsStep
    \/ LoadProgsAddVm
    \/ LoadProgsReturn

Spec == Init /\ [][Next]_vars

\* ----------------------------------------------- the loop on its own
\* runs in which LoadProgs is never called
EmitLoop(ev) == Send(ev, MaxLoopEvents)

NextLoop ==
    \/ \E text \in Texts \cup {NoFile} : WriteFile(text)
    \/ \E ev \in Events : EmitLoop(ev)
    \/ LoopDelete
    \/ LoopCreate
    \/ LoopUpdate
    \/ LoopAddVm
    \/ LoopOther

SpecLoop == Init /\ [][NextLoop]_vars

\* ------------------------------------------- a reader of the Engine
\* the names an execution reader looks up
ReaderNames == {NameA, NameB}

\* the outcome of a map read that the runtime ends with its fatal error
\* "concurrent map read and map write"
Fatal == [name |-> <<>>, code |-> "fatal", id |-> <<>>]

\* an execution reader starts a lookup of the Engine map; no lock is taken,
\* the Engine has none
LookupBegin(n) ==
    /\ rpc = "idle"
    /\ rpc' = "reading"
    /\ rname' = n
    /\ got' = NoVm
    /\ raced' = FALSE
    /\ UNCHANGED <<envVars, mu, sent, E, pathnames, counterVars, wlog, loopVars,
                   bulkVars, nvm, handled, histVars>>

\* the lookup ends: the entry of the map as it is, or, when a write of the
\* map has overlapped the read, any of what the data race can produce: the
\* entry, no entry, or the runtime's fatal error
LookupEnd ==
    /\ rpc = "reading"
    /\ rpc' = "idle"
    /\ got' \in IF raced THEN {Lookup(E, rname), NoVm, Fatal}
                 ELSE {Lookup(E, rname)}
    /\ UNCHANGED <<envVars, mu, sent, E, pathnames, counterVars, wlog, loopVars,
                   bulkVars, nvm, rname, raced, handled, histVars>>

EmitRace(ev) == Send(ev, MaxRaceEvents)

NextRace ==
    \/ \E text \in Texts \cup {NoFile} : WriteFile(text)
    \/ \E ev \in Events : EmitRace(ev)
    \/ LoopDelete
    \/ LoopCreate
    \/ LoopUpdate
    \/ LoopAddVm
    \/ LoopOther
    \/ LoadProgsCall
    \/ LoadProgsStep
    \/ LoadProgsAddVm
    \/ LoadProgsReturn
    \/ \E n \in ReaderNames : LookupBegin(n)
    \/ LookupEnd

SpecRace == Init /\ [][NextRace]_vars

\* ------------------------------- the loop with the emissions recorded
\* the watcher sends an event on its channel, and the run records it
EmitFifo(ev) ==
    /\ ~closed
    /\ Len(chan) < MaxFifoQueue
    /\ Len(sent) < MaxFifoEvents
    /\ chan' = Append(chan, ev)
    /\ sent' = Append(sent, ev)
    /\ UNCHANGED <<fs, closed, mu, E, pathnames, counterVars, wlog, loopVars,
                   bulkVars, nvm, readerVars, raced, handled, histVars>>

NextFifo ==
    \/ \E text \in Texts \cup {NoFile} : WriteFile(text)
    \/ \E ev \in Events : EmitFifo(ev)
    \/ LoopDelete
    \/ LoopCreate
    \/ LoopUpdate
    \/ LoopAddVm
    \/ LoopOther

SpecFifo == Init /\ [][NextFifo]_vars

\* ------------------------------------ the loop to the end of its range
EmitLive(ev) == Send(ev, MaxLiveEvents)

\* a step of the goroutine that runs start()
LoopStep ==
    \/ LoopDelete
    \/ LoopCreate
    \/ LoopUpdate
    \/ LoopAddVm
    \/ LoopOther
    \/ LoopExit

NextLive ==
    \/ \E ev \in Events : EmitLive(ev)
    \/ Close
    \/ LoopStep

\* the goroutine of start() is scheduled again and again, and each file
\* read and each compile returns
SpecLive == Init /\ [][NextLive]_vars /\ WF_vars(LoopStep)

\* --------------------------------- a file is deleted and created again
\* the events the watcher emits when progs/a.mtail is removed, created
\* again and written
Recreate ==
    <<[type |-> "Delete", Pathname |-> PathA],
      [type |-> "Create", Pathname |-> PathA],
      [type |-> "Update", Pathname |-> PathA]>>

\* the text of progs/a.mtail once it is created again
Recreated == "v2"

\* the k-th of these events is sent, with the change of the file it reports
RecreateStep(k, text) ==
    /\ ~closed
    /\ handled + Len(chan) = k - 1
    /\ fs' = [fs EXCEPT ![PathA] = text]
    /\ chan' = Append(chan, Recreate[k])
    /\ UNCHANGED <<closed, mu, sent, E, pathnames, counterVars, wlog, loopVars,
                   bulkVars, nvm, readerVars, raced, handled, histVars>>

\* progs/a.mtail is removed
FileRemoved == RecreateStep(1, NoFile)

\* progs/a.mtail is created again
FileCreated == RecreateStep(2, Recreated)

\* the write of progs/a.mtail ends
FileWritten == RecreateStep(3, Recreated)

NextRecreate ==
    \/ FileRemoved
    \/ FileCreated
    \/ FileWritten
    \/ LoopDelete
    \/ LoopCreate
    \/ LoopUpdate
    \/ LoopAddVm
    \/ LoadProgsCall
    \/ LoadProgsStep
    \/ LoadProgsAddVm
    \/ LoadProgsReturn

SpecRecreate == Init /\ [][NextRecreate]_vars

\* ----------------------------- start() step by step around its mutex
\* mutant of Unlock: the mutex stays held
Unlock_Leaks(m) == m

\* p.Unlock()
Unlock(m) == "none"

\* p.Lock() and a reader's RLock() are granted when nobody holds the mutex
\* (one reader at most is modelled)
Free(m) == m = "none"

EmitLock(ev) == Send(ev, MaxLockEvents)

\* case watcher.DeleteEvent, to p.Lock(): filepath.Split, p.E.RemoveVm(f)
TakeDelete ==
    \E ev \in Events :
        /\ Take(ev)
        /\ ev.type = "Delete"
        /\ E' = Deleted(E, DeleteName(ev.Pathname))
        /\ newest' = RemoveVm(newest, DeleteName(ev.Pathname))
        /\ MapWritten
        /\ lpc' = "lock"
        /\ UNCHANGED <<fs, closed, mu, sent, pathnames, counterVars, wlog, lvm,
                       bulkVars, nvm, readerVars, attempts, ret>>

\* case watcher.CreateEvent, to p.Lock(), or to the next event for another
\* extension
TakeCreate ==
    \E ev \in Events :
        /\ Take(ev)
        /\ ev.type = "Create"
        /\ lpc' = IF HasFileext(ev.Pathname) THEN "lock" ELSE "recv"
        /\ UNCHANGED <<fs, closed, mu, sent, E, pathnames, counterVars, wlog,
                       lvm, bulkVars, nvm, readerVars, raced, histVars>>

\* case watcher.UpdateEvent, to p.Lock(), or to the next event for another
\* extension
TakeUpdate ==
    \E ev \in Events :
        /\ Take(ev)
        /\ ev.type = "Update"
        /\ lpc' = IF HasFileext(ev.Pathname) THEN "lock" ELSE "recv"
        /\ UNCHANGED <<fs, closed, mu, sent, E, pathnames, counterVars, wlog,
                       lvm, bulkVars, nvm, readerVars, raced, histVars>>

\* p.Lock() returns
PLock ==
    /\ lpc = "lock"
    /\ Free(mu)
    /\ mu' = "loop"
    /\ lpc' = "locked"
    /\ UNCHANGED <<envVars, sent, E, pathnames, counterVars, wlog, event, lvm,
                   bulkVars, nvm, readerVars, raced, handled, histVars>>

\* the statements under the lock, and p.Unlock(): delete(p.pathnames, f) in
\* the Delete case, the pathnames test with p.w.Add in the other two; the
\* Create case ends here
PUnlock ==
    /\ lpc = "locked"
    /\ IF event.type = "Delete"
       THEN /\ pathnames' = pathnames \ {DeleteName(event.Pathname)}
            /\ wlog' = wlog
       ELSE IF event.type = "Create"
       THEN Watch(Base(event.Pathname), event.Pathname)
       ELSE Watch(Split(event.Pathname).file, event.Pathname)
    /\ mu' = Unlock(mu)
    /\ lpc' = IF event.type = "Create" THEN "recv" ELSE "unlocked"
    /\ UNCHANGED <<envVars, sent, E, counterVars, event, lvm, bulkVars, nvm,
                   readerVars, raced, handled, histVars>>

\* Delete case after p.Unlock(): p.w.Remove(event.Pathname)
AfterDelete ==
    /\ lpc = "unlocked"
    /\ event.type = "Delete"
    /\ wlog' = Append(wlog, [op |-> "Remove", path |-> event.Pathname])
    /\ lpc' = "recv"
    /\ UNCHANGED <<envVars, mu, sent, E, pathnames, counterVars, event, lvm,
                   bulkVars, nvm, readerVars, raced, handled, histVars>>

\* Update case after p.Unlock(): p.LoadProg(d, f), to the point where it
\* has compiled the file or has returned 1
AfterUpdate ==
    /\ lpc = "unlocked"
    /\ event.type = "Update"
    /\ LET d == Split(event.Pathname).dir
           f == Split(event.Pathname).file
           r == LoadProgTry("loop", d, f)
       IN  IF r.errors = 1
           THEN /\ E' = FailedLoad(E, f)
                /\ Prog_load_errors' = ErrorCounted(Prog_load_errors, f)
                /\ attempts' = Add(attempts, f, 1)
                /\ ret' = [by |-> "loop", name |-> f, errors |-> 1]
                /\ lpc' = "recv"
                /\ UNCHANGED <<Prog_loads, lvm, nvm, newest>>
           ELSE /\ lpc' = "addvm"
                /\ lvm' = r.v
                /\ nvm' = [nvm EXCEPT !["loop"] = @ + 1]
                /\ newest' = AddVm(newest, f, r.v.id)
                /\ UNCHANGED <<E, counterVars, attempts, ret>>
    /\ UNCHANGED <<envVars, mu, sent, pathnames, wlog, event, bulkVars,
                   readerVars, raced, handled>>

\* a reader of the Watch Set takes the shared lock
RLock ==
    /\ Free(mu)
    /\ mu' = "reader"
    /\ UNCHANGED <<envVars, sent, E, pathnames, counterVars, wlog, loopVars,
                   bulkVars, nvm, readerVars, raced, handled, histVars>>

\* the reader releases it
RUnlock ==
    /\ mu = "reader"
    /\ mu' = "none"
    /\ UNCHANGED <<envVars, sent, E, pathnames, counterVars, wlog, loopVars,
                   bulkVars, nvm, readerVars, raced, handled, histVars>>

NextLock ==
    \/ \E ev \in Events : EmitLock(ev)
    \/ TakeDelete
    \/ TakeCreate
    \/ TakeUpdate
    \/ LoopOther
    \/ PLock
    \/ PUnlock
    \/ AfterDelete
    \/ AfterUpdate
    \/ LoopAddVm
    \/ RLock
    \/ RUnlock

SpecLock == Init /\ [][NextLock]_vars

\* ============================================================== claims
\* a name that ends in the recognized extension, read off its text
EndsInMtail(s) == Len(s) >= 2 /\ s[Len(s) - 1] = Dot /\ s[Len(s)] = "mtail"

\* the regular files with the extension in the listing of this call
RegularProgs ==
    {fis[i].Name : i \in {j \in 1..Len(fis) :
                            ~fis[j].IsDir /\ EndsInMtail(fis[j].Name)}}

\* what C1 says of the Engine and the error count when LoadProgs returns
IsolatedLoad ==
    /\ DOMAIN E = loaded
    /\ loaded \subseteq RegularProgs
    /\ errors = Cardinality(RegularProgs \ loaded)

Taking == lpc = "recv" /\ chan # <<>> /\ handled' = handled + 1

\* the step of LoadProgs that opens and compiles the entry fis[bi]
BulkLoading ==
    bpc = "scan" /\ bi <= Len(fis) /\ (bi' # bi \/ bpc' # bpc)

\* the file at pth cannot be opened, or the Compiler reports errors for it
CannotLoad(pth) ==
    \/ pth \notin DOMAIN fs
    \/ fs[pth] = NoFile
    \/ Compile(<<>>, fs[pth], <<>>).errs

\* C2: a LoadProg call that cannot open its file, or whose compile reports
\* errors, returns 1 and leaves the whole Engine as it was, from the event
\* loop and from LoadProgs alike.
C2_FailedLoadKeepsEngine ==
    [][/\ ( /\ Taking
            /\ Head(chan).type = "Update"
            /\ EndsInMtail(Head(chan).Pathname)
            /\ CannotLoad(Head(chan).Pathname) )
          => /\ E' = E
             /\ lpc' = "recv"
             /\ ret' = [by |-> "loop", name |-> Base(Head(chan).Pathname),
                        errors |-> 1]
       /\ (BulkLoading /\ CannotLoad(ProgDir \o <<Sep>> \o fis[bi].Name))
          => /\ E' = E
             /\ bpc' = "scan"
             /\ errors' = errors + 1
             /\ ret' = [by |-> "bulk", name |-> fis[bi].Name, errors |-> 1]
      ]_vars

\* the last LoadProg call failed for a name that still has the instance
\* registered before it
C2_Witness ==
    /\ ret.errors = 1
    /\ ret.name = NameA
    /\ NameA \in DOMAIN E
    /\ Get(Prog_load_errors, NameA) >= 1

\* the VMs that exist: registered, or compiled and about to be registered
LiveIds == {E[n].id : n \in DOMAIN E} \cup {lvm.id, bvm.id}

\* C3: an Update event for a .mtail path whose file opens and compiles
\* makes the loop compile a new instance from the file as it is when the
\* event is handled, in the Watch Set or not, and LoadProg then registers
\* that instance under base(path) in place of any earlier one.
C3_UpdateReloads ==
    [][/\ ( /\ Taking
            /\ Head(chan).type = "Update"
            /\ EndsInMtail(Head(chan).Pathname)
            /\ ~CannotLoad(Head(chan).Pathname) )
          => /\ lpc' = "addvm"
             /\ lvm'.name = Base(Head(chan).Pathname)
             /\ lvm'.code = fs[Head(chan).Pathname]
             /\ lvm'.id \notin LiveIds
       /\ (lpc = "addvm" /\ lpc' = "recv")
          => /\ Base(event.Pathname) \in DOMAIN E'
             /\ E'[Base(event.Pathname)] = lvm
      ]_vars

\* two Update events for progs/a.mtail have been handled and the Engine
\* holds the second instance, compiled from the text written last
C3_Witness ==
    /\ lpc = "recv"
    /\ handled = 2
    /\ wlog = <<[op |-> "Add", path |-> PathA]>>
    /\ Get(Prog_loads, NameA) = 2
    /\ NameA \in DOMAIN E
    /\ E[NameA] = [name |-> NameA, code |-> "v2", id |-> <<"loop", 2>>]
    /\ fs[PathA] = "v2"

\* the calls start() has made on the watcher for paths of base name f
CallsFor(f) == SelectSeq(wlog, LAMBDA c : Base(c.path) = f)

\* the last event handled for a path of base name f that reached the
\* watcher was a Delete: every Delete issues a watch-remove, and a Create
\* or an Update handled after it for a .mtail name issues a watch-add
DeleteWasLast(f) ==
    /\ CallsFor(f) # <<>>
    /\ CallsFor(f)[Len(CallsFor(f))].op = "Remove"

\* C4 as stated: handling a Delete event removes base(path) from the Engine
\* and from the Watch Set and issues exactly one watch-remove for the path,
\* and the name stays out of both until a Create or an Update event for it
\* is handled.
C4_Original ==
    /\ [](\A f \in {NameA, NameN} :
            DeleteWasLast(f) => (f \notin DOMAIN E /\ f \notin pathnames))
    /\ [][(Taking /\ Head(chan).type = "Delete")
            => /\ Base(Head(chan).Pathname) \notin DOMAIN E'
               /\ Base(Head(chan).Pathname) \notin pathnames'
               /\ wlog' = Append(wlog, [op |-> "Remove",
                                        path |-> Head(chan).Pathname])
         ]_vars

\* C5 as stated: between two watch-adds the loop issues for one path there
\* is a Delete event handled for that path (a watch-remove for it, which
\* the loop issues when and only when it handles such a Delete).
C5_Original ==
    \A i, j \in 1..Len(wlog) :
        (i < j /\ wlog[i].op = "Add" /\ wlog[j].op = "Add"
               /\ wlog[i].path = wlog[j].path)
        => \E k \in (i + 1)..(j - 1) :
              wlog[k] = [op |-> "Remove", path |-> wlog[i].path]

\* C6: handling a Create or an Update event whose path does not end in
\* .mtail changes neither the Engine nor the Watch Set, calls neither
\* watch-add nor watch-remove and loads nothing.
C6_ExtensionFilter ==
    [][( /\ Taking
         /\ Head(chan).type \in {"Create", "Update"}
         /\ ~EndsInMtail(Head(chan).Pathname) )
       => /\ UNCHANGED <<E, pathnames, wlog, Prog_loads, Prog_load_errors,
                         attempts, nvm, lvm>>
          /\ lpc' = "recv"
      ]_vars

\* an Update event for progs/notes.txt, a file that compiles, has been
\* handled and nothing is registered, watched or counted
C6_Witness ==
    /\ lpc = "recv"
    /\ event = [type |-> "Update", Pathname |-> PathN]
    /\ fs[PathN] = "v1"
    /\ handled = 1
    /\ E = <<>>
    /\ pathnames = {}
    /\ wlog = <<>>
    /\ attempts = <<>>

\* C7 as stated: no read of the Engine map overlaps a write of it, and a
\* lookup returns the instance registered before a write or the one after
\* it, never anything else.
C7_Original == ~raced /\ got # Fatal

\* the identities of the instances the Engine holds, by name
Registered == [n \in DOMAIN E |-> E[n].id]

\* C8 as stated: when LoadProgs has returned and the loop is idle, the
\* entry of every name is the instance of the load that read the file most
\* recently, and a name deleted after its last load began has no entry.
C8_Original ==
    (bpc = "done" /\ lpc = "recv" /\ chan = <<>>) => Registered = newest

\* the Engine entries of all names but f are the same after the step
OthersKept(f) ==
    \A n \in (DOMAIN E \cup DOMAIN E') \ {f} : Lookup(E', n) = Lookup(E, n)

\* C9: handling an event for a path, and each step of a LoadProg call for
\* a name, successful or not, leaves the Engine entry of every other name
\* as it was.
C9_ReplaceNotMutate ==
    [][/\ Taking => OthersKept(Base(Head(chan).Pathname))
       /\ (lpc = "addvm" /\ lpc' = "recv") => OthersKept(Base(event.Pathname))
       /\ BulkLoading => OthersKept(fis[bi].Name)
       /\ (bpc = "addvm" /\ bpc' = "scan") => OthersKept(fis[bi].Name)
      ]_vars

\* a.mtail and b.mtail were loaded by LoadProgs, a Delete event for
\* progs/a.mtail has been handled and b.mtail has the instance it had
C9_Witness ==
    /\ lpc = "recv"
    /\ event = [type |-> "Delete", Pathname |-> PathA]
    /\ Get(Prog_loads, NameA) = 1
    /\ NameA \notin DOMAIN E
    /\ NameB \in DOMAIN E
    /\ E[NameB].id[1] = "bulk"

\* C10: every completed LoadProg call for a name adds exactly 1 to exactly
\* one of the two counters of that name, the success counter when it
\* returns 0 and has set the Engine entry, the error counter when it
\* returns 1; nothing else changes a counter, the two counters of a name
\* add up to the completed attempts for it, and no counter decreases.
C10_CountersExact ==
    /\ [](\A n \in Names :
            Get(Prog_loads, n) + Get(Prog_load_errors, n) = Get(attempts, n))
    /\ [][/\ \A n \in Names :
                /\ Get(Prog_loads', n) >= Get(Prog_loads, n)
                /\ Get(Prog_load_errors', n) >= Get(Prog_load_errors, n)
          /\ (attempts' = attempts) => UNCHANGED <<Prog_loads, Prog_load_errors>>
          /\ (attempts' # attempts) =>
                /\ attempts' = Add(attempts, ret'.name, 1)
                /\ ret'.errors = 0 =>
                      /\ Prog_loads' = Add(Prog_loads, ret'.name, 1)
                      /\ Prog_load_errors' = Prog_load_errors
                      /\ ret'.name \in DOMAIN E'
                      /\ E'[ret'.name].id[1] = ret'.by
                /\ ret'.errors = 1 =>
                      /\ Prog_load_errors' = Add(Prog_load_errors, ret'.name, 1)
                      /\ Prog_loads' = Prog_loads
                      /\ E' = E
         ]_vars

\* a.mtail has been loaded once and has failed once, b.mtail has failed
\* once
C10_Witness ==
    /\ lpc = "recv"
    /\ Get(Prog_loads, NameA) = 1
    /\ Get(Prog_load_errors, NameA) = 1
    /\ Get(attempts, NameA) = 2
    /\ Get(Prog_load_errors, NameB) = 1
    /\ Get(attempts, NameB) = 1

\* a LoadProgs call is in progress
InProgress == bpc \in {"scan", "addvm"}

\* C11 as stated: the bulk load is over before the loop consumes events, so
\* while a LoadProgs call is in progress the loop has taken no event since
\* the call and is in the middle of handling none (no Engine write of the
\* loop falls between two of the bulk load).
C11_Original == InProgress => (bmark = handled /\ lpc = "recv")

\* the watcher calls start() has made for the path pth itself
CallsOn(pth) == SelectSeq(wlog, LAMBDA c : c.path = pth)

\* the loop has issued a watch-add for pth and no watch-remove for it since
AddedNotRemoved(pth) ==
    /\ CallsOn(pth) # <<>>
    /\ CallsOn(pth)[Len(CallsOn(pth))].op = "Add"

\* C12 as stated: after every fully handled event, for every file path,
\* base(path) is in the Watch Set if and only if a watch-add was issued for
\* that path and no watch-remove for it since.
C12_Original ==
    lpc = "recv" =>
        \A pth \in EventPaths \cup {PathB} :
            (Base(pth) \in pathnames) <=> AddedNotRemoved(pth)

\* the step in which the loop takes a Create event for a .mtail path
TakingCreate ==
    /\ Taking
    /\ Head(chan).type = "Create"
    /\ EndsInMtail(Head(chan).Pathname)

\* handling a Create event for a .mtail path leaves the Engine and both
\* counters as they were and opens and compiles nothing
CreateLoadsNothing ==
    [][TakingCreate
       => /\ UNCHANGED <<E, Prog_loads, Prog_load_errors, attempts, nvm, lvm>>
          /\ lpc' = "recv"
      ]_vars

\* the one event handled so far is a Create event for a path of a.mtail
OnlyCreateHandled ==
    /\ handled = 1
    /\ event.type = "Create"
    /\ Base(event.Pathname) = NameA

\* C13 as stated: handling a Create event for a .mtail path changes neither
\* the Engine nor a counter and loads nothing, and a program whose only
\* events are Create events is not in the Engine.
C13_Original ==
    /\ CreateLoadsNothing
    /\ [](OnlyCreateHandled => NameA \notin DOMAIN E)

\* C13, amended: handling a Create event for a .mtail path changes neither
\* the Engine nor a counter and loads nothing, and a name enters the Engine
\* only when LoadProg registers it, called for an Update event for that
\* name or by LoadProgs.
C13_CreateOnlyWatches ==
    /\ CreateLoadsNothing
    /\ [][\A n \in Names :
            (n \notin DOMAIN E /\ n \in DOMAIN E')
            => \/ /\ lpc = "addvm" /\ lpc' = "recv"
                  /\ event.type = "Update"
                  /\ Base(event.Pathname) = n
               \/ /\ bpc = "addvm" /\ bpc' = "scan"
                  /\ fis[bi].Name = n
         ]_vars

\* a Create event for progs/a.mtail, a file that compiles, has been handled
\* before any LoadProgs call: the name is watched and nothing is loaded
C13_Witness ==
    /\ lpc = "recv"
    /\ bpc = "idle"
    /\ handled = 1
    /\ event = [type |-> "Create", Pathname |-> PathA]
    /\ fs[PathA] = "v1"
    /\ E = <<>>
    /\ pathnames = {NameA}
    /\ wlog = <<[op |-> "Add", path |-> PathA]>>
    /\ attempts = <<>>

\* C14: the loop handles the events one at a time and in the order the
\* watcher sent them: the channel holds exactly the events sent and not yet
\* taken, in order, the event in hand is the handled-th event sent, and an
\* event is taken only when the handling of the one before, its LoadProg
\* call included, is over.
C14_SingleConsumerFifo ==
    /\ [](/\ handled + Len(chan) = Len(sent)
          /\ chan = SubSeq(sent, handled + 1, Len(sent))
          /\ handled > 0 => event = sent[handled])
    /\ [][handled' # handled
            => /\ handled' = handled + 1
               /\ lpc = "recv"
               /\ lvm = NoVm
         ]_vars

\* three different events were sent, two of them wait in the channel in
\* the order sent while the first has been handled
C14_Witness ==
    /\ lpc = "recv"
    /\ handled = 1
    /\ sent = <<[type |-> "Create", Pathname |-> PathA],
                [type |-> "Update", Pathname |-> PathA],
                [type |-> "Delete", Pathname |-> PathA]>>
    /\ event = sent[1]
    /\ chan = <<sent[2], sent[3]>>
    /\ wlog = <<[op |-> "Add", path |-> PathA]>>

\* C15: the loop ends only when the channel is closed and drained, the
\* handling of an event of any kind leaves it running, every event sent is
\* eventually handled, and once the channel is closed the loop ends.
C15_StopsOnlyOnClosure ==
    /\ [][(lpc # "exited" /\ lpc' = "exited") => (closed /\ chan = <<>>)]_vars
    /\ [][Taking => lpc' \in {"recv", "addvm"}]_vars
    /\ \A k \in 1..MaxLiveEvents :
          (handled + Len(chan) >= k) ~> (handled >= k)
    /\ closed ~> (lpc = "exited")

\* an Update for a file that does not load and then an event of no known
\* type have been handled, the channel was closed and the loop has ended
C15_Witness ==
    /\ lpc = "exited"
    /\ closed
    /\ handled = 2
    /\ event.type = "Other"
    /\ Get(Prog_load_errors, NameA) = 1
    /\ E = <<>>

\* C16 as stated: when Delete, Create and Update for progs/a.mtail have
\* been emitted and handled in this order, for a file removed and created
\* again with a text that compiles, the Engine holds for a.mtail an instance
\* compiled from the file as created again, a.mtail is in the Watch Set,
\* and the watcher calls for the path were one watch-remove and then one
\* watch-add.
C16_Original ==
    (handled = Len(Recreate) /\ lpc = "recv")
    => /\ NameA \in DOMAIN E
       /\ E[NameA].code = Recreated
       /\ NameA \in pathnames
       /\ wlog = <<[op |-> "Remove", path |-> PathA],
                   [op |-> "Add", path |-> PathA]>>

\* C17: handling a Delete event for a path whose base name is neither in
\* the Engine nor in the Watch Set leaves the Engine, the Watch Set and the
\* counters as they were and the loop running; its one effect is the
\* watch-remove call for the path.
C17_DeleteUnknownNoop ==
    [][( /\ Taking
         /\ Head(chan).type = "Delete"
         /\ Base(Head(chan).Pathname) \notin DOMAIN E
         /\ Base(Head(chan).Pathname) \notin pathnames )
       => /\ UNCHANGED <<E, pathnames, Prog_loads, Prog_load_errors, attempts>>
          /\ wlog' = Append(wlog, [op |-> "Remove",
                                   path |-> Head(chan).Pathname])
          /\ lpc' = "recv"
      ]_vars

\* b.mtail was loaded by LoadProgs, a Delete event for progs/notes.txt has
\* been handled, and b.mtail is registered as before
C17_Witness ==
    /\ lpc = "recv"
    /\ handled = 1
    /\ event = [type |-> "Delete", Pathname |-> PathN]
    /\ NameB \in DOMAIN E
    /\ E[NameB].id[1] = "bulk"
    /\ pathnames = {}
    /\ wlog = <<[op |-> "Remove", path |-> PathN]>>

\* C18: the loop holds the mutex of the Watch Set only between a p.Lock()
\* and the p.Unlock() that follows it: never while LoadProg runs, never
\* when the handling of an event has ended, never when it calls p.Lock();
\* the step it takes while holding it releases it, calls LoadProg not at
\* all and the watcher at most once, and is never blocked.
C18_LockNotHeldAcrossLoad ==
    /\ [](mu = "loop" => (lpc = "locked" /\ ENABLED PUnlock))
    /\ [](lpc \in {"recv", "lock", "unlocked", "addvm"} => mu # "loop")
    /\ [][(mu = "loop" /\ lpc' # lpc)
            => /\ mu' = "none"
               /\ Len(wlog') <= Len(wlog) + 1
               /\ UNCHANGED <<E, attempts, nvm, lvm, Prog_loads,
                              Prog_load_errors>>
         ]_vars

\* the loop is inside the LoadProg call of an Update event, past the locked
\* block that added the watch, while a reader holds the mutex
C18_Witness ==
    /\ lpc = "addvm"
    /\ mu = "reader"
    /\ event = [type |-> "Update", Pathname |-> PathA]
    /\ pathnames = {NameA}
    /\ wlog = <<[op |-> "Add", path |-> PathA]>>

\* a step of LoadProgs or of a LoadProg call it makes
BulkStep == bpc' # bpc \/ bi' # bi

\* C19: no step of LoadProgs or of LoadProg changes the Watch Set or calls
\* the watcher for a file, the one call LoadProgs makes on the watcher is
\* the watch-add for the directory, after LoadProgs on a Loader that has
\* handled no event the Watch Set is empty, and a name enters the Watch Set
\* only in the handling of a Create or Update event for it and leaves it
\* only in the handling of a Delete event for it.
C19_BulkLeavesWatchSet ==
    /\ [][(BulkStep \/ lpc = "addvm") => UNCHANGED <<pathnames, wlog>>]_vars
    /\ [](bwlog = IF bpc = "idle" THEN <<>>
                  ELSE <<[op |-> "Add", path |-> ProgDir]>>)
    /\ []((bpc = "done" /\ handled = 0) => pathnames = {})
    /\ [][\A n \in Names :
            /\ (n \notin pathnames /\ n \in pathnames')
               => /\ Taking
                  /\ Head(chan).type \in {"Create", "Update"}
                  /\ Base(Head(chan).Pathname) = n
            /\ (n \in pathnames /\ n \notin pathnames')
               => /\ Taking
                  /\ Head(chan).type = "Delete"
                  /\ Base(Head(chan).Pathname) = n
         ]_vars

\* LoadProgs has returned on a Loader that has handled no event: two
\* programs are registered, the Watch Set is empty and the watcher was
\* called once, for the directory
C19_Witness ==
    /\ bpc = "done"
    /\ handled = 0
    /\ DOMAIN E = {NameA, NameB}
    /\ pathnames = {}
    /\ wlog = <<>>
    /\ bwlog = <<[op |-> "Add", path |-> ProgDir]>>

====
